---------------------------- MODULE Spec2Model ----------------------------
(***************************************************************************)
(* Model of the job queue of src/lib/db.ts: the jobs table, the exported   *)
(* operations addJob, claimNextJob, completeJob, failJob, cleanupOldJobs,  *)
(* and the wall clock the SQL statements read through datetime('now').     *)
(*                                                                         *)
(* Every exported operation is one atomic action: better-sqlite3 is        *)
(* synchronous, single statements are atomic in SQLite, and claimNextJob   *)
(* wraps its four statements in db.transaction, whose first statement is   *)
(* an UPDATE and therefore takes the write lock before anything is read.   *)
(*                                                                         *)
(* Time is counted in clock ticks.  datetime() values are 'YYYY-MM-DD      *)
(* HH:MM:SS' strings whose text order is the order of time, so they are    *)
(* integers here.  The two durations of src/lib/config.ts are supplied by  *)
(* the environment; the model runs with small values, both in ticks.       *)
(*                                                                         *)
(* The route handlers call these operations and nothing else on the table: *)
(* POST calls addJob after validation, PUT calls completeJob or failJob,   *)
(* GET calls cleanupOldJobs and then claimNextJob, which is two steps of   *)
(* this model at one clock value.                                          *)
(***************************************************************************)
EXTENDS Integers, FiniteSets, Sequences, TLC

\* ------------------------------------------------------------- bounds
MaxJobs == 2
MaxClock == 3

\* ------------------------------------------------------ configuration
\* config.jobTimeoutMinutes (JOB_TIMEOUT_MINUTES), in ticks
jobTimeoutMinutes == 1
\* config.cleanupAfterDays (CLEANUP_AFTER_DAYS), in ticks
cleanupAfterDays == 1

\* ------------------------------------------------------------- values
\* SQL NULL of a TEXT column holding a string
NULL == "NULL"
\* SQL NULL of a column holding a datetime
NULLTIME == -1
\* "no id": the id of a null return of claimNextJob
NOID == 0

Ids == 1..MaxJobs
Types == {"email"}
\* JavaScript values, written "js:<literal>": the empty object, the number
\* negative zero and the number zero.  The payload of a job is negative zero,
\* a JSON value whose text JSON.stringify does not keep.
DataValues == {"js:-0"}
ResultValues == {"js:{}"}
ErrorValues == {"boom"}
TimedOutError == "Timed out after retry"

\* ---------------------------------------------------- request bodies
\* config.maxPayloadBytes (MAX_PAYLOAD_BYTES)
maxPayloadBytes == 1048576
\* The bound of type.length in validateJobInput
MaxTypeLength == 100

\* What request.json() can give for the "type" of a body: nothing, a number,
\* the empty string, and strings of 100 and 101 characters ("t100" and
\* "t101" stand for strings of that length)
BodyTypes == {"js:undefined", "js:7", "", "t100", "t101"}
\* and for its "data": nothing, negative zero, and two strings whose JSON
\* texts are maxPayloadBytes and maxPayloadBytes + 1 characters long
BodyData == {"js:undefined", "js:-0", "js:max", "js:over"}

\* A body is unparsable ("invalid"), a JSON value that is no object ("other":
\* null, a number, a string), or an object with the two fields
Bodies ==
  {[kind |-> "invalid", type |-> "js:undefined", data |-> "js:undefined"],
   [kind |-> "other", type |-> "js:undefined", data |-> "js:undefined"]}
  \cup [kind : {"object"}, type : BodyTypes, data : BodyData]

\* typeof v === 'string'
IsString(v) == v \in {"", "email", "t100", "t101"}

\* v.length of a string
Length(v) ==
  CASE v = "" -> 0
    [] v = "email" -> 5
    [] v = "t100" -> 100
    [] v = "t101" -> 101
    [] v = "0" -> 1
    [] v = "text:max" -> maxPayloadBytes
    [] v = "text:over" -> maxPayloadBytes + 1

\* The payloads of the round-trip specification: also the empty object and
\* the number Infinity (what a JSON number too large for a double parses to)
RoundTripValues == {"js:{}", "js:-0", "js:Infinity"}
RoundTripTypes == {"email", "sms"}

\* JSON.stringify on these values: the text of the value; -0 is written "0",
\* a non-finite number is written "null"
JSONstringify(v) ==
  CASE v = "js:{}" -> "{}"
    [] v = "js:-0" -> "0"
    [] v = "js:0" -> "0"
    [] v = "js:Infinity" -> "null"
    [] v = "js:null" -> "null"
    [] v = "js:max" -> "text:max"
    [] v = "js:over" -> "text:over"

\* Variant: the stored text returned without JSON.parse
JSONparse_Raw(s) == s

\* JSON.parse on these texts: "0" is read as the number zero
JSONparse(s) ==
  CASE s = "{}" -> "js:{}"
    [] s = "0" -> "js:0"
    [] s = "null" -> "js:null"
    [] s = "text:max" -> "js:max"
    [] s = "text:over" -> "js:over"

VARIABLES
  jobs,      \* the jobs table: a function from the ids of the rows to rows
  now,       \* the wall clock, datetime('now')
  nextId,    \* how many ids crypto.randomUUID has handed out
  ret,       \* the last operation and what it returned
  claims,    \* history: per id, how often claimNextJob returned it
  reverts,   \* history: per id, how often it went active -> waiting
  args,      \* the arguments of the last operation
  inserted,  \* history: per id, the type and data addJob was called with
  settles,   \* history: per id, how often completeJob or failJob returned true
  revoked    \* history: the ids whose claim a timeout took away

vars == <<jobs, now, nextId, ret, claims, reverts, args, inserted, settles,
          revoked>>

Terminal == {"completed", "failed"}

Ret(op, id, ok, n, type, data) ==
  [op |-> op, id |-> id, ok |-> ok, n |-> n, type |-> type, data |-> data]

Args(type, data, result, error) ==
  [type |-> type, data |-> data, result |-> result, error |-> error]
NoArgs == Args(NULL, NULL, NULL, NULL)

\* The row INSERT INTO jobs (id, type, data) creates, with the schema's defaults
\* Variant: a schema whose started_at defaults to datetime('now')
NewRow_Started(type, data, t) ==
  [type |-> type, data |-> data, status |-> "waiting", result |-> NULL,
   error |-> NULL, retried |-> 0, created_at |-> t,
   started_at |-> t, completed_at |-> NULLTIME]

NewRow(type, data, t) ==
  [type |-> type, data |-> data, status |-> "waiting", result |-> NULL,
   error |-> NULL, retried |-> 0, created_at |-> t,
   started_at |-> NULLTIME, completed_at |-> NULLTIME]

\* col < datetime('now', '-d ...'): false when col is NULL
Before(col, t, d) == col # NULLTIME /\ col < t - d

\* --------------------------------------------------------- validation
\* Variant: validateJobInput without the check of type.length
validateJobInput_NoLengthCheck(body) ==
  IF body.kind # "object" THEN [ok |-> FALSE]
  ELSE IF body.type = "js:undefined" \/ body.type = ""
          \/ ~IsString(body.type) THEN [ok |-> FALSE]
  ELSE IF body.data = "js:undefined" THEN [ok |-> FALSE]
  ELSE IF Length(JSONstringify(body.data)) > maxPayloadBytes
       THEN [ok |-> FALSE]
  ELSE [ok |-> TRUE, type |-> body.type, data |-> body.data]

\* validateJobInput on a parsed body: the first failing check rejects
validateJobInput(body) ==
  IF body.kind # "object" THEN [ok |-> FALSE]
  ELSE IF body.type = "js:undefined" \/ body.type = ""
          \/ ~IsString(body.type) THEN [ok |-> FALSE]
  ELSE IF Length(body.type) > MaxTypeLength THEN [ok |-> FALSE]
  ELSE IF body.data = "js:undefined" THEN [ok |-> FALSE]
  ELSE IF Length(JSONstringify(body.data)) > maxPayloadBytes
       THEN [ok |-> FALSE]
  ELSE [ok |-> TRUE, type |-> body.type, data |-> body.data]

\* ------------------------------------------------- the SQL statements
\* INSERT INTO jobs (id, type, data) of addJob
InsertRow(J, id, type, data, t) ==
  [k \in DOMAIN J \cup {id} |->
     IF k = id THEN NewRow(type, JSONstringify(data), t) ELSE J[k]]

\* Variant: the first UPDATE without its "retried = 0" condition
RecoverTimedOut_Always(J, t) ==
  [id \in DOMAIN J |->
     IF /\ J[id].status = "active"
        /\ Before(J[id].started_at, t, jobTimeoutMinutes)
     THEN [J[id] EXCEPT !.status = "waiting", !.started_at = NULLTIME]
     ELSE J[id]]

\* First UPDATE of claimNextJob
RecoverTimedOut(J, t) ==
  [id \in DOMAIN J |->
     IF /\ J[id].status = "active"
        /\ J[id].retried = 0
        /\ Before(J[id].started_at, t, jobTimeoutMinutes)
     THEN [J[id] EXCEPT !.status = "waiting", !.started_at = NULLTIME]
     ELSE J[id]]

\* Variant: the second UPDATE without its "status = 'active'" condition
FailTimedOut_AnyStatus(J, t) ==
  [id \in DOMAIN J |->
     IF /\ J[id].retried = 1
        /\ Before(J[id].started_at, t, jobTimeoutMinutes)
     THEN [J[id] EXCEPT !.status = "failed", !.error = TimedOutError,
                        !.completed_at = t]
     ELSE J[id]]

\* Second UPDATE of claimNextJob
\* Variant: claimNextJob without its second UPDATE
FailTimedOut_Never(J, t) == J

FailTimedOut(J, t) ==
  [id \in DOMAIN J |->
     IF /\ J[id].status = "active"
        /\ J[id].retried = 1
        /\ Before(J[id].started_at, t, jobTimeoutMinutes)
     THEN [J[id] EXCEPT !.status = "failed", !.error = TimedOutError,
                        !.completed_at = t]
     ELSE J[id]]

\* Variant: the SELECT without its "status = 'waiting'" condition
OldestWaiting_AnyStatus(J) ==
  {id \in DOMAIN J :
     \A k \in DOMAIN J : J[id].created_at <= J[k].created_at}

\* Variant: the SELECT with ORDER BY created_at DESC
OldestWaiting_Newest(J) ==
  {id \in DOMAIN J :
     /\ J[id].status = "waiting"
     /\ \A k \in DOMAIN J :
          J[k].status = "waiting" => J[id].created_at >= J[k].created_at}

\* The rows SELECT ... WHERE status = 'waiting' ORDER BY created_at LIMIT 1
\* can return: any waiting row of least created_at (ties are the store's choice)
OldestWaiting(J) ==
  {id \in DOMAIN J :
     /\ J[id].status = "waiting"
     /\ \A k \in DOMAIN J :
          J[k].status = "waiting" => J[id].created_at <= J[k].created_at}

\* Variant: the third UPDATE without "started_at = datetime('now')"
MarkActive_NoStart(J, id, t) ==
  [J EXCEPT ![id] = [@ EXCEPT !.status = "active", !.retried = @ + 1]]

\* Third UPDATE of claimNextJob
\* Variant: the promotion without "retried = retried + 1"
MarkActive_NoCount(J, id, t) ==
  [J EXCEPT ![id] = [@ EXCEPT !.status = "active", !.started_at = t]]

MarkActive(J, id, t) ==
  [J EXCEPT ![id] = [@ EXCEPT !.status = "active", !.started_at = t,
                              !.retried = @ + 1]]

\* Variant: WHERE id = ? alone
ActiveRow_AnyStatus(J, id) == id \in DOMAIN J

\* WHERE id = ? AND status = 'active' of completeJob and failJob
ActiveRow(J, id) == id \in DOMAIN J /\ J[id].status = "active"

\* Variant: the UPDATE of completeJob without "completed_at = datetime('now')"
CompleteRow_NoCompletedAt(J, id, result, t) ==
  IF ActiveRow(J, id)
  THEN [J EXCEPT ![id] = [@ EXCEPT !.status = "completed",
                                   !.result = JSONstringify(result)]]
  ELSE J

\* Variant: the UPDATE of completeJob refusing a job whose timeout has passed
CompleteRow_InTime(J, id, result, t) ==
  IF ActiveRow(J, id) /\ ~Before(J[id].started_at, t, jobTimeoutMinutes)
  THEN [J EXCEPT ![id] = [@ EXCEPT !.status = "completed",
                                   !.result = JSONstringify(result),
                                   !.completed_at = t]]
  ELSE J

\* UPDATE of completeJob
CompleteRow(J, id, result, t) ==
  IF ActiveRow(J, id)
  THEN [J EXCEPT ![id] = [@ EXCEPT !.status = "completed",
                                   !.result = JSONstringify(result),
                                   !.completed_at = t]]
  ELSE J

\* UPDATE of failJob
FailRow(J, id, error, t) ==
  IF ActiveRow(J, id)
  THEN [J EXCEPT ![id] = [@ EXCEPT !.status = "failed", !.error = error,
                                   !.completed_at = t]]
  ELSE J

\* Variant: the DELETE with completed_at <= in place of <
OldJobs_Inclusive(J, t) ==
  {id \in DOMAIN J :
     /\ J[id].status \in Terminal
     /\ J[id].completed_at # NULLTIME
     /\ J[id].completed_at <= t - cleanupAfterDays}

\* The rows DELETE FROM jobs of cleanupOldJobs matches
OldJobs(J, t) ==
  {id \in DOMAIN J :
     /\ J[id].status \in Terminal
     /\ Before(J[id].completed_at, t, cleanupAfterDays)}

\* --------------------------------------------------------- histories
Reverted(J, K) ==
  {id \in DOMAIN J : id \in DOMAIN K /\ J[id].status = "active"
                                     /\ K[id].status = "waiting"}

Bump(h, S) == [id \in Ids |-> IF id \in S THEN h[id] + 1 ELSE h[id]]

\* The rows a timeout takes from their worker: active before, waiting or
\* failed after the two recovery UPDATEs
TimedOut(J, K) ==
  {id \in DOMAIN J : id \in DOMAIN K /\ J[id].status = "active"
                                     /\ K[id].status # "active"}

\* ------------------------------------------------------------ actions
Init ==
  /\ jobs = <<>>
  /\ now = 0
  /\ nextId = 0
  /\ ret = Ret("init", NOID, FALSE, 0, NULL, NULL)
  /\ claims = [id \in Ids |-> 0]
  /\ reverts = [id \in Ids |-> 0]
  /\ args = NoArgs
  /\ inserted = [id \in Ids |-> NoArgs]
  /\ settles = [id \in Ids |-> 0]
  /\ revoked = {}

\* Time passes
Tick ==
  /\ now < MaxClock
  /\ now' = now + 1
  /\ ret' = Ret("tick", NOID, FALSE, 0, NULL, NULL)
  /\ args' = NoArgs
  /\ UNCHANGED <<jobs, nextId, claims, reverts, inserted, settles, revoked>>

addJob(type, data) ==
  /\ nextId < MaxJobs
  /\ LET id == nextId + 1 IN
       /\ nextId' = id
       /\ jobs' = InsertRow(jobs, id, type, data, now)
       /\ ret' = Ret("addJob", id, TRUE, 0, NULL, NULL)
       /\ inserted' = [inserted EXCEPT ![id] = Args(type, data, NULL, NULL)]
  /\ args' = Args(type, data, NULL, NULL)
  /\ UNCHANGED <<now, claims, reverts, settles, revoked>>

claimNextJob ==
  LET recovered == RecoverTimedOut(jobs, now)
      settled == FailTimedOut(recovered, now)
      undone == Reverted(jobs, settled)
  IN
  /\ IF OldestWaiting(settled) = {}
     THEN /\ jobs' = settled
          /\ ret' = Ret("claimNextJob", NOID, FALSE, 0, NULL, NULL)
          /\ claims' = claims
     ELSE \E id \in OldestWaiting(settled) :
          /\ jobs' = MarkActive(settled, id, now)
          /\ ret' = Ret("claimNextJob", id, TRUE, 0, settled[id].type,
                        JSONparse(settled[id].data))
          /\ claims' = Bump(claims, {id})
  /\ reverts' = Bump(reverts, undone)
  /\ revoked' = revoked \cup TimedOut(jobs, settled)
  /\ args' = NoArgs
  /\ UNCHANGED <<now, nextId, inserted, settles>>

completeJob(id, result) ==
  /\ jobs' = CompleteRow(jobs, id, result, now)
  /\ ret' = Ret("completeJob", id, ActiveRow(jobs, id), 0, NULL, NULL)
  /\ reverts' = Bump(reverts, Reverted(jobs, jobs'))
  /\ settles' = Bump(settles, IF ActiveRow(jobs, id) THEN {id} ELSE {})
  /\ args' = Args(NULL, NULL, result, NULL)
  /\ UNCHANGED <<now, nextId, claims, inserted, revoked>>

failJob(id, error) ==
  /\ jobs' = FailRow(jobs, id, error, now)
  /\ ret' = Ret("failJob", id, ActiveRow(jobs, id), 0, NULL, NULL)
  /\ reverts' = Bump(reverts, Reverted(jobs, jobs'))
  /\ settles' = Bump(settles, IF ActiveRow(jobs, id) THEN {id} ELSE {})
  /\ args' = Args(NULL, NULL, NULL, error)
  /\ UNCHANGED <<now, nextId, claims, inserted, revoked>>

cleanupOldJobs ==
  LET old == OldJobs(jobs, now) IN
  /\ jobs' = [id \in DOMAIN jobs \ old |-> jobs[id]]
  /\ ret' = Ret("cleanupOldJobs", NOID, FALSE, Cardinality(old), NULL, NULL)
  /\ args' = NoArgs
  /\ UNCHANGED <<now, nextId, claims, reverts, inserted, settles, revoked>>

\* datetime('now') read by later statements after the clock has moved on.
\* Below MaxClock the clock moves forward.  At MaxClock every stored
\* timestamp moves one tick back instead, stopping at 0: each SQL condition
\* compares a column with datetime('now') minus a duration, so only the
\* distance between the two counts, and a timestamp that has reached 0 is
\* already older than both durations (MaxClock exceeds each by at least 2).
\* The clock thus never stops advancing although the states are finitely
\* many.  Rows whose created_at have both reached 0 have lost their order.
Shift(col) == IF col = NULLTIME \/ col = 0 THEN col ELSE col - 1

TickLive ==
  /\ IF now < MaxClock
     THEN now' = now + 1 /\ jobs' = jobs
     ELSE /\ now' = now
          /\ jobs' = [id \in DOMAIN jobs |->
                        [jobs[id] EXCEPT !.created_at = Shift(@),
                                         !.started_at = Shift(@),
                                         !.completed_at = Shift(@)]]
  /\ ret' = Ret("tick", NOID, FALSE, 0, NULL, NULL)
  /\ args' = NoArgs
  /\ UNCHANGED <<nextId, claims, reverts, inserted, settles, revoked>>

Next ==
  \/ Tick
  \/ \E type \in Types, data \in DataValues : addJob(type, data)
  \/ claimNextJob
  \/ \E id \in Ids, result \in ResultValues : completeJob(id, result)
  \/ \E id \in Ids, error \in ErrorValues : failJob(id, error)
  \/ cleanupOldJobs

Spec == Init /\ [][Next]_vars

\* The engine under workers that keep polling: the clock keeps advancing and
\* claimNextJob keeps being called.
NextLive ==
  \/ TickLive
  \/ \E type \in Types, data \in DataValues : addJob(type, data)
  \/ claimNextJob
  \/ \E id \in Ids, result \in ResultValues : completeJob(id, result)
  \/ \E id \in Ids, error \in ErrorValues : failJob(id, error)
  \/ cleanupOldJobs

SpecLive ==
  /\ Init
  /\ [][NextLive]_vars
  /\ WF_vars(TickLive)
  /\ WF_vars(claimNextJob)

\* POST /api/queue: parse the body, validate it, addJob; 400 on a body that
\* does not parse or does not validate, 201 with the new id otherwise
POST(body) ==
  LET validation == validateJobInput(body)
      id == nextId + 1
  IN
  /\ args' = Args(body.type, body.data, NULL, NULL)
  /\ IF body.kind = "invalid" \/ ~validation.ok
     THEN /\ ret' = Ret("POST", NOID, FALSE, 400, NULL, NULL)
          /\ UNCHANGED <<jobs, nextId, inserted>>
     ELSE /\ nextId < MaxJobs
          /\ nextId' = id
          /\ jobs' = InsertRow(jobs, id, validation.type, validation.data, now)
          /\ inserted' = [inserted EXCEPT ![id] =
                            Args(validation.type, validation.data, NULL, NULL)]
          /\ ret' = Ret("POST", id, TRUE, 201, NULL, NULL)
  /\ UNCHANGED <<now, claims, reverts, settles, revoked>>

\* The operations with jobs submitted through POST
NextPost ==
  \/ Tick
  \/ \E body \in Bodies : POST(body)
  \/ claimNextJob
  \/ \E id \in Ids, result \in ResultValues : completeJob(id, result)
  \/ \E id \in Ids, error \in ErrorValues : failJob(id, error)
  \/ cleanupOldJobs

SpecPost == Init /\ [][NextPost]_vars

\* The same operations with jobs of several types and payloads
NextRoundTrip ==
  \/ Tick
  \/ \E type \in RoundTripTypes, data \in RoundTripValues : addJob(type, data)
  \/ claimNextJob
  \/ \E id \in Ids, result \in ResultValues : completeJob(id, result)
  \/ \E id \in Ids, error \in ErrorValues : failJob(id, error)
  \/ cleanupOldJobs

SpecRoundTrip == Init /\ [][NextRoundTrip]_vars

\* --------------------------------------------- vocabulary of the claims
Rows == DOMAIN jobs
\* started_at is older than now minus the timeout, at the clock of this state
Stale(id) == jobs[id].started_at # NULLTIME
             /\ jobs[id].started_at < now - jobTimeoutMinutes
\* This step is a claimNextJob call / one that returned a job
ClaimCall == ret'.op = "claimNextJob"
ClaimReturned == ClaimCall /\ ret'.id # NOID
SettleCall == ret'.op \in {"completeJob", "failJob"}
SweepCall == ret'.op = "cleanupOldJobs"

\* C1: no double-claim.  A job id is returned by claimNextJob at most once
\* more than it was reverted from active to waiting, and a claimNextJob call
\* returns only a job that before the call was waiting, or was active with
\* started_at older than now minus the timeout (reverted by this call):
\* never a job that is active and in time, and never a terminal one.
C1_NoDoubleClaim ==
  [][ /\ \A id \in Ids : claims'[id] <= reverts'[id] + 1
      /\ ClaimReturned =>
           /\ ret'.id \in Rows
           /\ jobs[ret'.id].status \notin Terminal
           /\ \/ jobs[ret'.id].status = "waiting"
              \/ jobs[ret'.id].status = "active" /\ Stale(ret'.id)
    ]_vars

\* C1 witness: claimNextJob has just returned a job while another job,
\* claimed earlier, is still active; each of the two was claimed once.
C1_Witness ==
  /\ ret.op = "claimNextJob" /\ ret.id # NOID
  /\ \E k \in Rows : /\ k # ret.id
                     /\ jobs[k].status = "active"
                     /\ jobs[ret.id].status = "active"
                     /\ claims[k] = 1 /\ claims[ret.id] = 1

\* C2: retry on first timeout.  When claimNextJob runs, every job that is
\* active, was claimed exactly once and has started_at older than now minus
\* the timeout is not failed: after the call it is waiting with started_at
\* cleared, or it is the job this call returned (claimed a second time).
C2_RetryOnFirstTimeout ==
  [][ ClaimCall =>
        \A id \in Rows :
          (jobs[id].status = "active" /\ claims[id] = 1 /\ Stale(id)) =>
            /\ id \in DOMAIN jobs'
            /\ jobs'[id].status # "failed"
            /\ \/ /\ jobs'[id].status = "waiting"
                  /\ jobs'[id].started_at = NULLTIME
               \/ /\ ret'.id = id
                  /\ jobs'[id].status = "active"
                  /\ claims'[id] = 2
    ]_vars

\* C2 witness: a job claimed once was found timed out by a claimNextJob call.
C2_Witness ==
  /\ ret.op = "claimNextJob"
  /\ \E id \in Rows : /\ claims[id] = 1
                      /\ jobs[id].error = TimedOutError
                      /\ jobs[id].completed_at = now

\* C3: timeout failure happens only on the second attempt.  Every job that
\* is failed with the retry-timeout error has been claimed exactly twice.
C3_TimeoutFailureOnSecondAttempt ==
  \A id \in Rows :
    (jobs[id].status = "failed" /\ jobs[id].error = TimedOutError)
      => claims[id] = 2

\* C3 witness: a job is failed with the retry-timeout error.
C3_Witness ==
  \E id \in Rows : jobs[id].status = "failed" /\ jobs[id].error = TimedOutError

\* C4: single-retry cap.  Every job goes from active to waiting at most once
\* and is returned by claimNextJob at most twice.
C4_SingleRetryCap ==
  \A id \in Ids : reverts[id] <= 1 /\ claims[id] <= 2

\* C4 witness: two jobs have each been claimed and then timed out, the
\* second after the first had already been failed by an earlier call.
C4_Witness ==
  /\ \A id \in Ids : /\ id \in Rows
                     /\ claims[id] >= 1
                     /\ jobs[id].error = TimedOutError
  /\ \E a, b \in Rows : jobs[a].completed_at < jobs[b].completed_at

\* C5: the retry scenario, call by call.  (1) A claimNextJob call that finds
\* job A waiting, never claimed, as the only waiting job returns A and leaves
\* it active with attempt count 1.  (2) A call that finds A active, claimed
\* once and timed out, with no job waiting, returns A again and leaves it
\* active with attempt count 2.  (3) A call that finds A active, claimed
\* twice and timed out, with a job B waiting, leaves A failed with the
\* retry-timeout error and returns B.
C5_RetryScenario ==
  [][ ClaimCall =>
        \A a \in Rows :
          LET nowaiting == \A k \in Rows \ {a} : jobs[k].status # "waiting"
              timedout == jobs[a].status = "active" /\ Stale(a)
          IN
          /\ (jobs[a].status = "waiting" /\ claims[a] = 0 /\ nowaiting) =>
               /\ ret'.id = a
               /\ jobs'[a].status = "active"
               /\ jobs'[a].retried = 1
          /\ (timedout /\ claims[a] = 1 /\ nowaiting) =>
               /\ ret'.id = a
               /\ jobs'[a].status = "active"
               /\ jobs'[a].retried = 2
          /\ (timedout /\ claims[a] = 2 /\ ~nowaiting) =>
               /\ jobs'[a].status = "failed"
               /\ jobs'[a].error = TimedOutError
               /\ ret'.id \in Rows \ {a}
    ]_vars

\* C5 as the code runs it: the second call of the scenario has failed A and
\* returned nothing.
C5_Witness ==
  /\ ret.op = "claimNextJob" /\ ret.id = NOID
  /\ Rows = {1}
  /\ claims[1] = 1
  /\ jobs[1].status = "failed" /\ jobs[1].error = TimedOutError

\* C6: completeJob and failJob called with an id that has no row, or whose
\* row is waiting, completed or failed, return false and change no row.
C6_SettleInactiveIsNoOp ==
  [][ (SettleCall /\ ~(ret'.id \in Rows /\ jobs[ret'.id].status = "active"))
        => (ret'.ok = FALSE /\ jobs' = jobs)
    ]_vars

\* C6 witness: failJob has returned false for an id without a row, while
\* the table holds a terminal row.
C6_Witness ==
  /\ ret.op = "failJob" /\ ret.ok = FALSE
  /\ ret.id \notin Rows
  /\ \E k \in Rows : jobs[k].status \in Terminal

\* C7: FIFO.  When claimNextJob returns job J, no job that was waiting at the
\* selection step (the rows still waiting after the call, J being the only
\* row the promotion changes) has a created_at smaller than J's.
C7_FifoClaim ==
  [][ ClaimReturned =>
        \A k \in DOMAIN jobs' :
          jobs'[k].status = "waiting" =>
            jobs'[k].created_at >= jobs'[ret'.id].created_at
    ]_vars

\* C7 witness: claimNextJob returned a job while a younger job stays waiting.
C7_Witness ==
  /\ ret.op = "claimNextJob" /\ ret.id \in Rows
  /\ \E k \in Rows : /\ jobs[k].status = "waiting"
                     /\ jobs[k].created_at > jobs[ret.id].created_at

\* C8: cleanupOldJobs deletes a row if and only if its status is completed
\* or failed and now - completed_at is greater than the retention; it returns
\* the number of rows deleted and changes no other row; and no step of any
\* operation removes a row that is waiting or active.
C8_SweepExactlyAgedTerminal ==
  [][ /\ SweepCall =>
           /\ \A id \in Rows :
                (id \notin DOMAIN jobs') <=>
                  (/\ jobs[id].status \in Terminal
                   /\ now - jobs[id].completed_at > cleanupAfterDays)
           /\ ret'.n = Cardinality(Rows \ DOMAIN jobs')
           /\ \A id \in DOMAIN jobs' : id \in Rows /\ jobs'[id] = jobs[id]
      /\ \A id \in Rows \ DOMAIN jobs' :
           SweepCall /\ jobs[id].status \in Terminal
    ]_vars

\* C8 witness: cleanupOldJobs deleted one row and kept a terminal row whose
\* age is exactly the retention.
C8_Witness ==
  /\ ret.op = "cleanupOldJobs" /\ ret.n = 1
  /\ \E k \in Rows : /\ jobs[k].status \in Terminal
                     /\ now - jobs[k].completed_at = cleanupAfterDays

\* C9 as stated: a job is active if and only if started_at is set and the
\* attempt counter is at least 1.
C9_ActiveIffStarted ==
  \A id \in Rows :
    jobs[id].status = "active" <=>
      (jobs[id].started_at # NULLTIME /\ jobs[id].retried >= 1)

\* C9 amended: an active job has started_at set and an attempt counter of at
\* least 1; a job with started_at set and a counter of at least 1 is active,
\* completed or failed (a settled job keeps its started_at).
C9_ActiveImpliesStarted ==
  \A id \in Rows :
    /\ jobs[id].status = "active" =>
         (jobs[id].started_at # NULLTIME /\ jobs[id].retried >= 1)
    /\ (jobs[id].started_at # NULLTIME /\ jobs[id].retried >= 1) =>
         jobs[id].status \in {"active"} \cup Terminal

\* C9 witness: one job is active and another, completed by its worker,
\* still has its started_at.
C9_Witness ==
  \E a, b \in Rows :
    /\ jobs[a].status = "active"
    /\ jobs[b].status = "completed" /\ jobs[b].started_at # NULLTIME

\* C10: every completed or failed job has completed_at set, and while the
\* row exists no later operation changes its completed_at.
C10_CompletedAtSetAndFrozen ==
  [][ /\ \A id \in DOMAIN jobs' :
           jobs'[id].status \in Terminal => jobs'[id].completed_at # NULLTIME
      /\ \A id \in Rows \cap DOMAIN jobs' :
           jobs[id].status \in Terminal =>
             jobs'[id].completed_at = jobs[id].completed_at
    ]_vars

\* C10 witness: a claimNextJob call ran at a time when a job settled earlier
\* had a started_at older than the timeout, and its completed_at is still
\* the earlier time.
C10_Witness ==
  /\ ret.op = "claimNextJob"
  /\ \E id \in Rows : /\ jobs[id].status = "completed"
                      /\ Stale(id)
                      /\ jobs[id].completed_at < now

\* C11: terminal states are absorbing.  Once a job is completed or failed,
\* no step changes its status, result or error; its row disappears only in
\* a cleanupOldJobs call.
C11_TerminalAbsorbing ==
  [][ \A id \in Rows :
        jobs[id].status \in Terminal =>
          IF id \in DOMAIN jobs'
          THEN /\ jobs'[id].status = jobs[id].status
               /\ jobs'[id].result = jobs[id].result
               /\ jobs'[id].error = jobs[id].error
          ELSE SweepCall
    ]_vars

\* C11 witness: completeJob was called on a job that failJob had failed; it
\* returned false and the job is still failed with the worker's error.
C11_Witness ==
  /\ ret.op = "completeJob" /\ ret.ok = FALSE
  /\ ret.id \in Rows
  /\ jobs[ret.id].status = "failed"
  /\ jobs[ret.id].error \in ErrorValues
  /\ jobs[ret.id].result = NULL

\* C13: the attempt counter (retried) of every job is 0 or 1.
C13_AttemptCounterZeroOrOne ==
  \A id \in Rows : jobs[id].retried \in {0, 1}

\* C13 witness: a job claimed once has run through a timeout and a later
\* claimNextJob call, next to a job never claimed.
C13_Witness ==
  \E a, b \in Rows :
    /\ jobs[a].retried = 1 /\ jobs[a].error = TimedOutError
    /\ jobs[a].completed_at < now
    /\ ret.op = "claimNextJob" /\ ret.id = b
    /\ jobs[b].retried = 1
\* The values JSON text represents exactly: JSON.parse(JSON.stringify(v)) is v
JsonExact == {"js:{}", "js:0", "js:null"}

\* The job that is waiting and strictly older than every other waiting job
OldestOf(id) ==
  /\ id \in Rows /\ jobs[id].status = "waiting"
  /\ \A k \in Rows \ {id} :
       jobs[k].status = "waiting" => jobs[id].created_at < jobs[k].created_at

\* C12 as stated: when a claimNextJob call finds an inserted job as the
\* oldest waiting job, it returns the id addJob gave, with a type and a data
\* equal to the values addJob was called with.
C12_RoundTrip ==
  [][ ClaimCall =>
        \A id \in Rows :
          OldestOf(id) =>
            /\ ret'.id = id
            /\ ret'.type = inserted[id].type
            /\ ret'.data = inserted[id].data
    ]_vars

\* C12 amended: the same, with the data equal to the inserted data whenever
\* that is a value JSON text represents exactly (not negative zero, which
\* comes back as zero, and not a non-finite number, which comes back as null).
C12_RoundTripOfJsonValues ==
  [][ ClaimCall =>
        \A id \in Rows :
          OldestOf(id) =>
            /\ ret'.id = id
            /\ ret'.type = inserted[id].type
            /\ inserted[id].data \in JsonExact =>
                 ret'.data = inserted[id].data
            /\ inserted[id].data = "js:-0" => ret'.data = "js:0"
            /\ inserted[id].data = "js:Infinity" => ret'.data = "js:null"
    ]_vars

\* C12 witness: claimNextJob returned the older of two jobs that differ in
\* type and payload, with the type and the payload of the older one.
C12_Witness ==
  /\ ret.op = "claimNextJob" /\ ret.id \in Rows
  /\ ret.type = "sms" /\ ret.data = "js:{}"
  /\ inserted[ret.id] = Args("sms", "js:{}", NULL, NULL)
  /\ \E k \in Rows : /\ jobs[k].status = "waiting"
                     /\ jobs[k].created_at > jobs[ret.id].created_at
                     /\ inserted[k] = Args("email", "js:-0", NULL, NULL)
\* The submission is one validation must reject: type missing, not a string,
\* empty or longer than 100 characters, or data missing or with a JSON text
\* longer than the maximum
Rejectable(type, data) ==
  \/ type \in {"js:undefined", "js:7", ""}
  \/ type = "t101"
  \/ data \in {"js:undefined", "js:over"}

\* C14: a POST whose type is missing, empty, no string or longer than 100
\* characters, or whose data is missing or oversized, is answered 400 and
\* leaves the table as it was; any other POST is answered 201 and adds
\* exactly one row, with a new id, and changes no existing row.
C14_ValidationGatesInsert ==
  [][ ret'.op = "POST" =>
        IF Rejectable(args'.type, args'.data)
        THEN /\ ret'.n = 400
             /\ jobs' = jobs
        ELSE /\ ret'.n = 201
             /\ ret'.id \notin Rows
             /\ DOMAIN jobs' = Rows \cup {ret'.id}
             /\ \A k \in Rows : jobs'[k] = jobs[k]
             /\ jobs'[ret'.id].type = args'.type
             /\ jobs'[ret'.id].status = "waiting"
    ]_vars

\* C14 witness: a POST with a type of 101 characters was answered 400 while
\* the table holds a job submitted with a type of 100 characters.
C14_Witness ==
  /\ ret.op = "POST" /\ ret.n = 400
  /\ args.type = "t101" /\ args.data = "js:-0"
  /\ \E k \in Rows : jobs[k].type = "t100"
\* C15: racing completions.  Of the completeJob and failJob calls for one
\* id, at most one returns true in each active period of the job: the calls
\* that returned true never outnumber the claims, and stay below them while
\* the job is active.  The call that returns true finds the job active and
\* leaves it with the status, result and error it wrote; every other call
\* returns false and changes nothing.
C15_OneSettlePerActivePeriod ==
  [][ /\ \A id \in Ids :
           /\ settles'[id] <= claims'[id]
           /\ (id \in DOMAIN jobs' /\ jobs'[id].status = "active")
                => settles'[id] < claims'[id]
      /\ SettleCall =>
           IF ret'.ok
           THEN /\ ret'.id \in Rows /\ jobs[ret'.id].status = "active"
                /\ jobs'[ret'.id].status =
                     (IF ret'.op = "completeJob" THEN "completed" ELSE "failed")
                /\ jobs'[ret'.id].result =
                     (IF ret'.op = "completeJob"
                      THEN JSONstringify(args'.result) ELSE jobs[ret'.id].result)
                /\ jobs'[ret'.id].error =
                     (IF ret'.op = "failJob"
                      THEN args'.error ELSE jobs[ret'.id].error)
           ELSE jobs' = jobs
    ]_vars

\* C15 witness: completeJob returned true for a job and the failJob call
\* that raced with it returned false; the job is completed, without error.
C15_Witness ==
  /\ ret.op = "failJob" /\ ret.ok = FALSE
  /\ ret.id \in Rows
  /\ settles[ret.id] = 1
  /\ jobs[ret.id].status = "completed"
  /\ jobs[ret.id].completed_at = now
  /\ jobs[ret.id].error = NULL

\* C16: completeJob on an active job returns true and sets status completed,
\* the result and completed_at = now; failJob on an active job returns true
\* and sets status failed, the error and completed_at = now; the job's type,
\* data, created_at, started_at and attempt counter, and every other job,
\* stay as they were.
C16_SettleEffectAndFrame ==
  [][ (SettleCall /\ ret'.id \in Rows /\ jobs[ret'.id].status = "active") =>
        LET id == ret'.id
            done == ret'.op = "completeJob"
        IN
        /\ ret'.ok = TRUE
        /\ DOMAIN jobs' = Rows
        /\ jobs'[id] =
             [jobs[id] EXCEPT
                !.status = IF done THEN "completed" ELSE "failed",
                !.result = IF done THEN JSONstringify(args'.result) ELSE @,
                !.error = IF done THEN @ ELSE args'.error,
                !.completed_at = now]
        /\ \A k \in Rows \ {id} : jobs'[k] = jobs[k]
    ]_vars

\* C16 witness: failJob has just failed one of two active jobs; the other
\* is still active.
C16_Witness ==
  /\ ret.op = "failJob" /\ ret.ok = TRUE
  /\ ret.id \in Rows
  /\ jobs[ret.id].status = "failed" /\ jobs[ret.id].error = args.error
  /\ jobs[ret.id].completed_at > jobs[ret.id].started_at
  /\ \E k \in Rows \ {ret.id} : jobs[k].status = "active"
\* C17: only a claim that is still standing can settle a job.  completeJob
\* and failJob never return true for a job whose claim a timeout has taken
\* away (the job was reverted to waiting or failed by a claimNextJob call),
\* and a call that returns true finds the job active.
C17_RevokedClaimCannotSettle ==
  [][ /\ (SettleCall /\ ret'.ok) =>
           /\ ret'.id \notin revoked
           /\ ret'.id \in Rows /\ jobs[ret'.id].status = "active"
      /\ \A id \in revoked' : settles'[id] = settles[id]
    ]_vars

\* C17 witness: a worker whose job was taken away by a timeout called
\* completeJob for it afterwards and got false.
C17_Witness ==
  /\ ret.op = "completeJob" /\ ret.ok = FALSE
  /\ ret.id \in revoked
  /\ ret.id \in Rows
  /\ settles[ret.id] = 0

\* C18: timeout detection is lazy.  A job leaves active through a timeout
\* (to waiting, or to failed with the retry-timeout error) only in a
\* claimNextJob call; in every other step a job that is active with
\* started_at older than now minus the timeout stays active unless a
\* completeJob or failJob call settles it, and such a call for it returns true
\* and leaves it completed or failed by the worker.
C18_LazyTimeout ==
  [][ \A id \in Rows :
        jobs[id].status = "active" =>
          /\ id \in DOMAIN jobs'
          /\ (jobs'[id].status = "waiting"
              \/ (jobs'[id].status = "failed"
                  /\ jobs'[id].error = TimedOutError)) => ClaimCall
          /\ (~ClaimCall /\ ~(SettleCall /\ ret'.id = id)) =>
               jobs'[id] = jobs[id]
          /\ (Stale(id) /\ SettleCall /\ ret'.id = id) =>
               /\ ret'.ok = TRUE
               /\ jobs'[id].status =
                    (IF ret'.op = "completeJob" THEN "completed" ELSE "failed")
               /\ jobs'[id].error # TimedOutError
    ]_vars

\* C18 witness: completeJob returned true for a job whose timeout had
\* passed, a claimNextJob call not having come in between.
C18_Witness ==
  /\ ret.op = "completeJob" /\ ret.ok = TRUE
  /\ ret.id \in Rows
  /\ jobs[ret.id].status = "completed"
  /\ jobs[ret.id].started_at < jobs[ret.id].completed_at - jobTimeoutMinutes
\* C19: liveness under polling.  When claimNextJob is called again and again
\* and the clock keeps advancing, every active job eventually leaves the
\* active state, whether or not its worker ever settles it, and every job in
\* the table eventually is completed or failed.
C19_LivenessUnderPolling ==
  \A id \in Ids :
    /\ (id \in Rows /\ jobs[id].status = "active")
         ~> ~(id \in Rows /\ jobs[id].status = "active")
    /\ (id \in Rows) ~> (id \in Rows /\ jobs[id].status \in Terminal)

\* C19 witness: a job its worker never settled has left the active state
\* through a later claimNextJob call, and every job in the table is
\* terminal.
C19_Witness ==
  /\ ret.op = "claimNextJob"
  /\ \E id \in Rows :
       /\ claims[id] > 0 /\ settles[id] = 0
       /\ id \in revoked
       /\ jobs[id].status \in Terminal
  /\ \A id \in Rows : jobs[id].status \in Terminal
\* C20: frame of claimNextJob.  A call leaves every terminal job, every
\* active job whose started_at is not strictly older than now minus the
\* timeout, and every waiting job other than the one it returns exactly as
\* they were, and the table has the same jobs after the call as before.
C20_ClaimFrame ==
  [][ ClaimCall =>
        /\ DOMAIN jobs' = Rows
        /\ \A id \in Rows :
             \/ jobs[id].status \in Terminal
             \/ jobs[id].status = "active" /\ ~Stale(id)
             \/ jobs[id].status = "waiting" /\ id # ret'.id
             => jobs'[id] = jobs[id]
    ]_vars

\* C20 witness: a claimNextJob call returned a job, now active and started
\* at the time of the call, while a job settled by its worker was in the table.
C20_Witness ==
  /\ ret.op = "claimNextJob" /\ ret.id # NOID
  /\ \E k \in Rows \ {ret.id} :
       /\ jobs[k].status \in Terminal
       /\ settles[k] = 1
  /\ jobs[ret.id].status = "active"
  /\ jobs[ret.id].started_at = now
\* C21: promotion.  When claimNextJob returns a job, right after the call
\* that job has status active, started_at equal to the time of the call and
\* retried exactly one greater than before the call; it is the same row, with
\* its type, data and created_at unchanged.
C21_Promotion ==
  [][ ClaimReturned =>
        LET id == ret'.id IN
        /\ id \in Rows /\ id \in DOMAIN jobs'
        /\ jobs'[id].status = "active"
        /\ jobs'[id].started_at = now
        /\ jobs'[id].retried = jobs[id].retried + 1
        /\ jobs'[id].type = jobs[id].type
        /\ jobs'[id].data = jobs[id].data
        /\ jobs'[id].created_at = jobs[id].created_at
    ]_vars

\* C21 witness: a job inserted at an earlier time has been returned by
\* claimNextJob: it is active, started now, and counts one attempt.
C21_Witness ==
  /\ ret.op = "claimNextJob" /\ ret.id \in Rows
  /\ jobs[ret.id].status = "active"
  /\ jobs[ret.id].retried = 1
  /\ jobs[ret.id].started_at = now
  /\ jobs[ret.id].created_at < now
\* The table once the two timeout UPDATEs of a claimNextJob call made now
\* have been applied
AfterRecovery == FailTimedOut(RecoverTimedOut(jobs, now), now)

\* C22: claimNextJob returns null exactly when no job is waiting once its
\* timeout UPDATEs have been applied.  When it returns null no job has
\* become active, and the table is the one the timeout UPDATEs left: the
\* jobs they reverted or failed stay so.
C22_NullIffNothingWaiting ==
  [][ ClaimCall =>
        /\ (ret'.id = NOID) <=>
             (\A id \in Rows : AfterRecovery[id].status # "waiting")
        /\ (ret'.id = NOID) <=>
             (\A id \in Rows :
                /\ jobs[id].status # "waiting"
                /\ ~(jobs[id].status = "active" /\ jobs[id].retried = 0
                     /\ Stale(id)))
        /\ (ret'.id = NOID) =>
             /\ jobs' = AfterRecovery
             /\ \A id \in Rows :
                  jobs'[id].status = "active" => jobs[id].status = "active"
    ]_vars

\* C22 witness: a claimNextJob call returned null, an active job being in
\* the table, and failed a timed-out job, which has stayed failed.
C22_Witness ==
  /\ ret.op = "claimNextJob" /\ ret.id = NOID
  /\ \E a, b \in Rows :
       /\ jobs[a].status = "active"
       /\ jobs[b].status = "failed" /\ jobs[b].error = TimedOutError
       /\ jobs[b].completed_at = now
\* C23: addJob adds exactly one job.  Its id is that of no job in the table
\* before the call; the new row is waiting, with retried 0, created_at the
\* time of the call and started_at, completed_at, result and error NULL; and
\* every job that was in the table is unchanged.
C23_InsertEffectAndFrame ==
  [][ ret'.op = "addJob" =>
        LET id == ret'.id IN
        /\ id \notin Rows
        /\ DOMAIN jobs' = Rows \cup {id}
        /\ jobs'[id].status = "waiting"
        /\ jobs'[id].retried = 0
        /\ jobs'[id].created_at = now
        /\ jobs'[id].started_at = NULLTIME
        /\ jobs'[id].completed_at = NULLTIME
        /\ jobs'[id].result = NULL
        /\ jobs'[id].error = NULL
        /\ \A k \in Rows : jobs'[k] = jobs[k]
    ]_vars

\* C23 witness: addJob has inserted a job at a later time than an earlier
\* job, which is no longer waiting.
C23_Witness ==
  /\ ret.op = "addJob" /\ ret.id \in Rows
  /\ jobs[ret.id].status = "waiting"
  /\ jobs[ret.id].created_at = now
  /\ \E k \in Rows \ {ret.id} :
       /\ jobs[k].status # "waiting"
       /\ jobs[k].created_at < now
\* C24: in every reachable state, for every job: result is set only when the
\* status is completed, error is set only when the status is failed, and a
\* waiting job has started_at, completed_at, result and error all NULL.
C24_FieldsFollowStatus ==
  \A id \in Rows :
    /\ jobs[id].result # NULL => jobs[id].status = "completed"
    /\ jobs[id].error # NULL => jobs[id].status = "failed"
    /\ jobs[id].status = "waiting" =>
         /\ jobs[id].started_at = NULLTIME
         /\ jobs[id].completed_at = NULLTIME
         /\ jobs[id].result = NULL
         /\ jobs[id].error = NULL

\* C24 witness: the table holds a completed job with its result and a job
\* failed by its worker with its error.
C24_Witness ==
  \E a, b \in Rows :
    /\ jobs[a].status = "completed" /\ jobs[a].result # NULL
    /\ jobs[b].status = "failed" /\ jobs[b].error \in ErrorValues
=============================================================================
